---- MODULE Spec2Model ----
(***************************************************************************)
(* A model of src/expense-tracker.py: the SQLite-backed DataStorage, the   *)
(* category breakdown of create_pie_chart and the handlers of              *)
(* ExpenseTrackerApp.                                                      *)
(*                                                                         *)
(* Representation                                                          *)
(*   - a text (the content of the amount Entry, a date string) is a        *)
(*     sequence of one-character strings; categories are atomic strings;   *)
(*   - a Python float is a record [cls, v]: cls = "fin" with v the value   *)
(*     in tenths (25 stands for 2.5), cls = "inf" with v the sign, or      *)
(*     cls = "nan". The amounts used are multiples of 0.5, which binary    *)
(*     floating point adds without rounding;                               *)
(*   - the table expenses is the sequence of its rows in rowid order;      *)
(*   - logical and ever_held are history variables: the logical record     *)
(*     (the n-th expense ever added) behind each row, and every            *)
(*     (id, logical record) pair the store has ever shown;                 *)
(*     selected_logical is the logical record behind the row the user      *)
(*     clicked, 0 once the selection is cleared.                           *)
(***************************************************************************)
EXTENDS Integers, Sequences, FiniteSets, TLC

VARIABLES
    expenses,             \* rows of table expenses, in rowid order
    sqlite_sequence,      \* AUTOINCREMENT counter of table expenses
    logical,              \* history: logical[i] is the expense behind expenses[i]
    next_uid,             \* history: number of the next expense to be added
    ever_held,            \* history: set of <<id, logical record>> ever stored
    expense_table,        \* rows displayed by the Treeview, top to bottom
    tree_selection,       \* index of the Treeview's selected row, 0 if none
    selected_expense_id,  \* ExpenseTrackerApp.selected_expense_id
    selected_logical,     \* history: the logical record of the row last clicked
    amount_entry,         \* text of the amount Entry
    category_combobox,    \* text of the category Combobox
    now,                  \* index in Moments of the last clock reading
    last,                 \* the most recent call and its arguments
    message,              \* the messagebox shown by the most recent call
    raised,               \* the exception raised by the most recent call
    chart                 \* the breakdown drawn by the most recent call

vars == <<expenses, sqlite_sequence, logical, next_uid, ever_held,
          expense_table, tree_selection, selected_expense_id, selected_logical,
          amount_entry, category_combobox, now, last, message, raised, chart>>

storeVars == <<expenses, sqlite_sequence, logical, next_uid, ever_held>>
uiVars == <<expense_table, tree_selection, selected_expense_id, selected_logical,
            amount_entry, category_combobox>>

(***************************************************************************)
(* Bounds of the model.                                                    *)
(***************************************************************************)
MaxAdds == 2        \* expenses ever added through the application
MaxStoreAdds == 3   \* expenses ever added by direct calls of DataStorage

(***************************************************************************)
(* Python values.                                                          *)
(***************************************************************************)
None == 0           \* selected_expense_id = None; ids start at 1

Fin(v) == [cls |-> "fin", v |-> v]
Inf == [cls |-> "inf", v |-> 1]
NegInf == [cls |-> "inf", v |-> -1]
NaN == [cls |-> "nan", v |-> 0]

\* x <= 0 on floats: every comparison with NaN is False.
FloatLeZero(x) ==
    CASE x.cls = "fin" -> x.v <= 0
      [] x.cls = "inf" -> x.v < 0
      [] OTHER -> FALSE

\* x > 0 on floats.
FloatGtZero(x) ==
    CASE x.cls = "fin" -> x.v > 0
      [] x.cls = "inf" -> x.v > 0
      [] OTHER -> FALSE

\* x == y on floats: NaN equals nothing, itself included.
FloatEq(x, y) == x.cls # "nan" /\ y.cls # "nan" /\ x = y

\* x + y on floats.
FloatAdd(x, y) ==
    CASE x.cls = "nan" \/ y.cls = "nan" -> NaN
      [] x.cls = "inf" /\ y.cls = "inf" -> IF x.v = y.v THEN x ELSE NaN
      [] x.cls = "inf" -> x
      [] y.cls = "inf" -> y
      [] OTHER -> Fin(x.v + y.v)

(***************************************************************************)
(* Characters and texts.                                                   *)
(***************************************************************************)
DigitChars == <<"0", "1", "2", "3", "4", "5", "6", "7", "8", "9">>

IsDigit(c) == \E i \in 1..10 : DigitChars[i] = c

DigitVal(c) == (CHOOSE i \in 1..10 : DigitChars[i] = c) - 1

\* The byte of a character of a date string (ASCII), as SQLite's BINARY
\* collation compares it.
Ord(c) ==
    CASE c = " " -> 32
      [] c = "-" -> 45
      [] c = ":" -> 58
      [] OTHER -> 48 + DigitVal(c)

\* Two decimal digits, zero padded (%d, %m, %H, %M, %S).
TwoDigits(n) == <<DigitChars[(n \div 10) + 1], DigitChars[(n % 10) + 1]>>

\* Four decimal digits (%Y of a year in 1000..9999).
FourDigits(n) == TwoDigits(n \div 100) \o TwoDigits(n % 100)

\* datetime.strftime("%d-%m-%Y %H:%M:%S")
strftime(t) ==
    TwoDigits(t.day) \o <<"-">> \o TwoDigits(t.month) \o <<"-">>
    \o FourDigits(t.year) \o <<" ">> \o TwoDigits(t.hour) \o <<":">>
    \o TwoDigits(t.minute) \o <<":">> \o TwoDigits(t.second)

\* memcmp order of two texts: s < t.
RECURSIVE TextLess(_, _)
TextLess(s, t) ==
    IF t = <<>> THEN FALSE
    ELSE IF s = <<>> THEN TRUE
    ELSE IF Ord(Head(s)) # Ord(Head(t)) THEN Ord(Head(s)) < Ord(Head(t))
    ELSE TextLess(Tail(s), Tail(t))

(***************************************************************************)
(* float(text) and str(float).  The texts of the model are written with    *)
(* the characters 0-9 . + - space and lowercase letters, with at most one  *)
(* digit after the point (no exponent, no underscore).                     *)
(***************************************************************************)
RECURSIVE LStrip(_)
LStrip(s) == IF s # <<>> /\ Head(s) = " " THEN LStrip(Tail(s)) ELSE s

RECURSIVE RStrip(_)
RStrip(s) ==
    IF s # <<>> /\ s[Len(s)] = " " THEN RStrip(SubSeq(s, 1, Len(s) - 1)) ELSE s

\* str.strip()
Strip(s) == RStrip(LStrip(s))

AllDigits(s) == \A i \in 1..Len(s) : IsDigit(s[i])

\* Value of a string of decimal digits (0 for the empty string).
RECURSIVE DigitsVal(_)
DigitsVal(s) ==
    IF s = <<>> THEN 0
    ELSE 10 * DigitsVal(SubSeq(s, 1, Len(s) - 1)) + DigitVal(s[Len(s)])

\* Decimal digits of a natural number.
RECURSIVE NatDigits(_)
NatDigits(n) ==
    IF n < 10 THEN <<DigitChars[n + 1]>>
    ELSE NatDigits(n \div 10) \o <<DigitChars[(n % 10) + 1]>>

HasSign(s) == s # <<>> /\ Head(s) \in {"+", "-"}

Unsigned(s) == IF HasSign(s) THEN Tail(s) ELSE s

SignOf(s) == IF s # <<>> /\ Head(s) = "-" THEN -1 ELSE 1

\* Position of the first "." of s, Len(s) + 1 if there is none.
PointAt(s) ==
    IF \E i \in 1..Len(s) : s[i] = "."
    THEN CHOOSE i \in 1..Len(s) : s[i] = "." /\ \A j \in 1..(i - 1) : s[j] # "."
    ELSE Len(s) + 1

IntPart(s) == SubSeq(s, 1, PointAt(s) - 1)

FracPart(s) == SubSeq(s, PointAt(s) + 1, Len(s))

\* An unsigned decimal literal: digits, digits. , .digits or digits.digits
IsDecimal(s) ==
    /\ AllDigits(IntPart(s))
    /\ AllDigits(FracPart(s))
    /\ Len(IntPart(s)) + Len(FracPart(s)) > 0

\* Value in tenths of an unsigned decimal literal.
DecimalTenths(s) ==
    10 * DigitsVal(IntPart(s))
    + (IF FracPart(s) = <<>> THEN 0 ELSE DigitVal(Head(FracPart(s))))

\* float(text): [ok |-> FALSE] stands for ValueError.
ParseFloat(text) ==
    LET body == Unsigned(Strip(text))
        sign == SignOf(Strip(text))
    IN  CASE body = <<"n", "a", "n">> -> [ok |-> TRUE, val |-> NaN]
          [] body \in {<<"i", "n", "f">>,
                       <<"i", "n", "f", "i", "n", "i", "t", "y">>} ->
                [ok |-> TRUE, val |-> IF sign < 0 THEN NegInf ELSE Inf]
          [] IsDecimal(body) ->
                [ok |-> TRUE, val |-> Fin(sign * DecimalTenths(body))]
          [] OTHER -> [ok |-> FALSE, val |-> NaN]

\* str(x) of a float.
FormatFloat(x) ==
    CASE x.cls = "nan" -> <<"n", "a", "n">>
      [] x.cls = "inf" ->
            (IF x.v < 0 THEN <<"-">> ELSE <<>>) \o <<"i", "n", "f">>
      [] OTHER ->
            LET a == IF x.v < 0 THEN -x.v ELSE x.v
            IN  (IF x.v < 0 THEN <<"-">> ELSE <<>>)
                \o NatDigits(a \div 10) \o <<".">> \o <<DigitChars[(a % 10) + 1]>>

\* int(text) succeeds: optional sign and digits, surrounding blanks allowed.
IsIntLiteral(text) ==
    LET body == Unsigned(Strip(text))
    IN  body # <<>> /\ AllDigits(body)

\* tkinter.ttk._convert_stringval on the text of a Treeview cell, and the text
\* the result has when it is inserted in a widget: a cell that reads as an
\* int comes back as that int.
ConvertStringval(text) ==
    IF IsIntLiteral(text)
    THEN LET n == SignOf(Strip(text)) * DigitsVal(Unsigned(Strip(text)))
         IN  (IF n < 0 THEN <<"-">> ELSE <<>>) \o NatDigits(IF n < 0 THEN -n ELSE n)
    ELSE text

(***************************************************************************)
(* Inputs of the model.                                                    *)
(***************************************************************************)
\* Clock readings, in chronological order.
Moments ==
    << [day |-> 31, month |-> 12, year |-> 2023, hour |-> 23, minute |-> 59, second |-> 59],
       [day |-> 1, month |-> 1, year |-> 2024, hour |-> 0, minute |-> 0, second |-> 0],
       [day |-> 1, month |-> 2, year |-> 2024, hour |-> 9, minute |-> 30, second |-> 5] >>

\* Texts the user types in the amount Entry.
AmountTexts ==
    { <<>>, <<"a", "b", "c">>, <<"0">>, <<"-", "5">>, <<" ", "2", ".", "5">>,
      <<"n", "a", "n">>, <<"5">> }

\* Texts the user puts in the category Combobox.
CategoryTexts == {"", "Food", "Transportation"}

\* Arguments of direct calls of DataStorage.
StoreAmounts == {Fin(-50), Fin(25), NaN}
StoreCategories == {"", "Food"}
StoreDates == {strftime(Moments[t]) : t \in 1..2}
StoreIds == 0..(MaxStoreAdds + 1)

(***************************************************************************)
(* DataStorage.                                                            *)
(***************************************************************************)
Max(a, b) == IF a >= b THEN a ELSE b

\* Largest rowid of the table, 0 if it is empty.
MaxRowid(rows) ==
    IF rows = <<>> THEN 0
    ELSE CHOOSE m \in {rows[i].id : i \in 1..Len(rows)} :
            \A i \in 1..Len(rows) : rows[i].id <= m

\* Mutant of NextRowid: the largest id in use, not the one after it.
NextRowidReuse(rows, seqv) == Max(MaxRowid(rows), seqv)

\* The id an INTEGER PRIMARY KEY AUTOINCREMENT column gives a new row: one
\* more than the largest of the table's rowids and its sqlite_sequence entry.
NextRowid(rows, seqv) == Max(MaxRowid(rows), seqv) + 1

\* INSERT INTO expenses (amount, category, date) VALUES (?, ?, ?)
InsertRow(rows, seqv, amount, category, date) ==
    Append(rows, [id |-> NextRowid(rows, seqv), amount |-> amount,
                  category |-> category, date |-> date])

\* Indexes of the rows DELETE FROM expenses WHERE id = ? leaves, in rowid order.
RECURSIVE KeptIndexes(_, _)
KeptIndexes(rows, expense_id) ==
    IF rows = <<>> THEN <<>>
    ELSE LET front == KeptIndexes(SubSeq(rows, 1, Len(rows) - 1), expense_id)
         IN  IF rows[Len(rows)].id = expense_id THEN front
             ELSE Append(front, Len(rows))

\* Mutant of DeleteRow: WHERE id <= ? in place of WHERE id = ?
DeleteRowUpTo(rows, expense_id) == SelectSeq(rows, LAMBDA r : r.id > expense_id)

\* DELETE FROM expenses WHERE id = ?
DeleteRow(rows, expense_id) ==
    LET kept == KeptIndexes(rows, expense_id)
    IN  [k \in 1..Len(kept) |-> rows[kept[k]]]

\* Mutant of RebuildTable: the rows are copied with their ids.
RebuildTableKeepIds(rows) == rows

\* The rebuild: the rows are copied in rowid order, without their ids, into a
\* fresh AUTOINCREMENT table that takes the place of expenses.
RebuildTable(rows) ==
    [k \in 1..Len(rows) |-> [id |-> k, amount |-> rows[k].amount,
                             category |-> rows[k].category, date |-> rows[k].date]]

\* The sqlite_sequence entry of the rebuilt table.
RebuildSequence(rows) == Len(rows)

\* SELECT * FROM expenses ORDER BY date DESC: the dates are compared as TEXT;
\* rows of equal date come out in rowid order.
RECURSIVE OrderByDateDesc(_)
OrderByDateDesc(rows) ==
    IF rows = <<>> THEN <<>>
    ELSE LET r == rows[Len(rows)]
             sorted == OrderByDateDesc(SubSeq(rows, 1, Len(rows) - 1))
             p == Cardinality({i \in 1..Len(sorted) : ~TextLess(sorted[i].date, r.date)})
         IN  SubSeq(sorted, 1, p) \o <<r>> \o SubSeq(sorted, p + 1, Len(sorted))

\* DataStorage.get_all_expenses
get_all_expenses(rows) == OrderByDateDesc(rows)

\* The <<id, logical record>> pairs a table shows.
Held(rows, owners) == {<<rows[i].id, owners[i]>> : i \in 1..Len(rows)}

\* The logical record behind the row of the given id, 0 if there is none.
OwnerOf(rows, owners, expense_id) ==
    IF \E i \in 1..Len(rows) : rows[i].id = expense_id
    THEN owners[CHOOSE i \in 1..Len(rows) : rows[i].id = expense_id]
    ELSE 0

\* DataStorage.add_expense: a NaN amount is bound as NULL and the NOT NULL
\* constraint rejects the row.
storage_add_expense(amount, category, date) ==
    IF amount.cls = "nan"
    THEN /\ raised' = "sqlite3.IntegrityError"
         /\ UNCHANGED storeVars
    ELSE /\ raised' = ""
         /\ expenses' = InsertRow(expenses, sqlite_sequence, amount, category, date)
         /\ sqlite_sequence' = NextRowid(expenses, sqlite_sequence)
         /\ logical' = Append(logical, next_uid)
         /\ next_uid' = next_uid + 1
         /\ ever_held' = ever_held \cup Held(expenses', logical')

\* DataStorage.delete_expense
storage_delete_expense(expense_id) ==
    LET kept == KeptIndexes(expenses, expense_id)
    IN  /\ raised' = ""
        /\ expenses' = RebuildTable(DeleteRow(expenses, expense_id))
        /\ sqlite_sequence' = RebuildSequence(DeleteRow(expenses, expense_id))
        /\ logical' = [k \in 1..Len(kept) |-> logical[kept[k]]]
        /\ next_uid' = next_uid
        /\ ever_held' = ever_held \cup Held(expenses', logical')

(***************************************************************************)
(* create_pie_chart.                                                       *)
(***************************************************************************)
NoChart == [drawn |-> FALSE, slices |-> {}]

NoMessage == <<>>

\* Mutant of GroupSum: the amount of the last row of the category, not the sum.
RECURSIVE GroupSumLast(_, _)
GroupSumLast(rows, category) ==
    IF rows = <<>> THEN Fin(0)
    ELSE IF rows[Len(rows)].category = category THEN rows[Len(rows)].amount
    ELSE GroupSumLast(SubSeq(rows, 1, Len(rows) - 1), category)

\* Sum of the amounts of the rows of one category, in row order.
RECURSIVE GroupSum(_, _)
GroupSum(rows, category) ==
    IF rows = <<>> THEN Fin(0)
    ELSE LET front == GroupSum(SubSeq(rows, 1, Len(rows) - 1), category)
             r == rows[Len(rows)]
         IN  IF r.category = category THEN FloatAdd(front, r.amount) ELSE front

\* df.groupby('category')['amount'].sum(): one total per category present.
CategoryTotals(rows) ==
    { [label |-> c, value |-> GroupSum(rows, c)] :
        c \in {rows[i].category : i \in 1..Len(rows)} }

\* create_pie_chart(expenses): the totals handed to ax.pie, or the notice.
create_pie_chart(rows) ==
    IF rows = <<>>
    THEN /\ message' = <<"showinfo", "Info", "No expenses to show.">>
         /\ chart' = NoChart
    ELSE /\ message' = NoMessage
         /\ chart' = [drawn |-> TRUE, slices |-> CategoryTotals(rows)]

(***************************************************************************)
(* ExpenseTrackerApp.                                                      *)
(***************************************************************************)
NoArgs ==
    [op |-> "init", id |-> None, amount |-> NaN, text |-> <<>>,
     category |-> "", date |-> <<>>]

\* ExpenseTrackerApp.load_expenses: the Treeview is emptied, which drops its
\* selection, and filled with the rows of get_all_expenses.
load_expenses ==
    /\ expense_table' = get_all_expenses(expenses')
    /\ tree_selection' = 0

\* Mutant of clear_inputs: the selected id is kept.
clear_inputs_keep_selection ==
    /\ amount_entry' = <<>>
    /\ category_combobox' = ""
    /\ UNCHANGED <<selected_expense_id, selected_logical>>

\* ExpenseTrackerApp.clear_inputs
clear_inputs ==
    /\ amount_entry' = <<>>
    /\ category_combobox' = ""
    /\ selected_expense_id' = None
    /\ selected_logical' = 0

Init ==
    /\ expenses = <<>>
    /\ sqlite_sequence = 0
    /\ logical = <<>>
    /\ next_uid = 1
    /\ ever_held = {}
    /\ expense_table = <<>>
    /\ tree_selection = 0
    /\ selected_expense_id = None
    /\ selected_logical = 0
    /\ amount_entry = <<>>
    /\ category_combobox = ""
    /\ now = 1
    /\ last = NoArgs
    /\ message = NoMessage
    /\ raised = ""
    /\ chart = NoChart

\* The user edits the amount Entry.
TypeAmount(text) ==
    /\ amount_entry' = text
    /\ last' = [NoArgs EXCEPT !.op = "type_amount", !.text = text]
    /\ message' = NoMessage
    /\ raised' = ""
    /\ chart' = NoChart
    /\ UNCHANGED <<storeVars, expense_table, tree_selection, selected_expense_id,
                   selected_logical, category_combobox, now>>

\* The user edits the category Combobox.
TypeCategory(category) ==
    /\ category_combobox' = category
    /\ last' = [NoArgs EXCEPT !.op = "type_category", !.category = category]
    /\ message' = NoMessage
    /\ raised' = ""
    /\ chart' = NoChart
    /\ UNCHANGED <<storeVars, expense_table, tree_selection, selected_expense_id,
                   selected_logical, amount_entry, now>>

\* ExpenseTrackerApp.add_expense, the clock reading t.
add_expense(t) ==
    LET amount == amount_entry
        category == category_combobox
        date == strftime(Moments[t])
        parsed == ParseFloat(amount)
    IN  /\ now' = t
        /\ last' = [NoArgs EXCEPT !.op = "add_expense", !.text = amount,
                                  !.category = category, !.date = date]
        /\ chart' = NoChart
        /\ IF amount = <<>> \/ category = ""
           THEN /\ message' = <<"showerror", "Input Error", "All fields are required.">>
                /\ raised' = ""
                /\ UNCHANGED <<storeVars, uiVars>>
           ELSE IF ~parsed.ok \/ FloatLeZero(parsed.val)
           THEN /\ message' = <<"showerror", "Input Error",
                                "Amount must be a positive number.">>
                /\ raised' = ""
                /\ UNCHANGED <<storeVars, uiVars>>
           ELSE /\ parsed.val.cls # "nan" => next_uid <= MaxAdds
                /\ storage_add_expense(parsed.val, category, date)
                /\ IF raised' # ""
                   THEN /\ message' = NoMessage
                        /\ UNCHANGED uiVars
                   ELSE /\ load_expenses
                        /\ clear_inputs
                        /\ message' = <<"showinfo", "Success",
                                        "Expense added successfully!">>

\* ExpenseTrackerApp.delete_expense
delete_expense ==
    /\ last' = [NoArgs EXCEPT !.op = "delete_expense", !.id = selected_expense_id]
    /\ chart' = NoChart
    /\ UNCHANGED now
    /\ IF selected_expense_id = None
       THEN /\ message' = <<"showwarning", "Selection Error",
                            "Please select an expense to delete.">>
            /\ raised' = ""
            /\ UNCHANGED <<storeVars, uiVars>>
       ELSE /\ storage_delete_expense(selected_expense_id)
            /\ load_expenses
            /\ clear_inputs
            /\ message' = <<"showinfo", "Success", "Expense deleted successfully!">>

\* Mutant of on_row_select: the position of the row is taken for its id.
on_row_select_index(i) ==
    LET row == expense_table[i]
    IN  /\ tree_selection' = i
        /\ selected_expense_id' = i
        /\ selected_logical' = OwnerOf(expenses, logical, row.id)
        /\ amount_entry' = ConvertStringval(FormatFloat(row.amount))
        /\ category_combobox' = row.category
        /\ last' = [NoArgs EXCEPT !.op = "on_row_select", !.id = i]
        /\ message' = NoMessage
        /\ raised' = ""
        /\ chart' = NoChart
        /\ UNCHANGED <<storeVars, expense_table, now>>

\* The user clicks row i of the Treeview: ExpenseTrackerApp.on_row_select
on_row_select(i) ==
    LET row == expense_table[i]
    IN  /\ tree_selection' = i
        /\ selected_expense_id' = row.id
        /\ selected_logical' = OwnerOf(expenses, logical, row.id)
        /\ amount_entry' = ConvertStringval(FormatFloat(row.amount))
        /\ category_combobox' = row.category
        /\ last' = [NoArgs EXCEPT !.op = "on_row_select", !.id = row.id]
        /\ message' = NoMessage
        /\ raised' = ""
        /\ chart' = NoChart
        /\ UNCHANGED <<storeVars, expense_table, now>>

\* ExpenseTrackerApp.show_pie_chart
show_pie_chart ==
    /\ create_pie_chart(get_all_expenses(expenses))
    /\ last' = [NoArgs EXCEPT !.op = "show_pie_chart"]
    /\ raised' = ""
    /\ UNCHANGED <<storeVars, uiVars, now>>

UserTypesAmount == \E text \in AmountTexts : TypeAmount(text)
UserTypesCategory == \E category \in CategoryTexts : TypeCategory(category)
UserAdds == \E t \in now..Len(Moments) : add_expense(t)
UserDeletes == delete_expense
UserSelects == \E i \in 1..Len(expense_table) : on_row_select(i)
UserShowsChart == show_pie_chart

Next ==
    \/ UserTypesAmount
    \/ UserTypesCategory
    \/ UserAdds
    \/ UserDeletes
    \/ UserSelects
    \/ UserShowsChart

Spec == Init /\ [][Next]_vars

(***************************************************************************)
(* DataStorage called directly.                                            *)
(***************************************************************************)
CallAddExpense(amount, category, date) ==
    /\ amount.cls # "nan" => next_uid <= MaxStoreAdds
    /\ storage_add_expense(amount, category, date)
    /\ last' = [NoArgs EXCEPT !.op = "DataStorage.add_expense", !.amount = amount,
                              !.category = category, !.date = date]
    /\ message' = NoMessage
    /\ chart' = NoChart
    /\ UNCHANGED <<uiVars, now>>

CallDeleteExpense(expense_id) ==
    /\ storage_delete_expense(expense_id)
    /\ last' = [NoArgs EXCEPT !.op = "DataStorage.delete_expense", !.id = expense_id]
    /\ message' = NoMessage
    /\ chart' = NoChart
    /\ UNCHANGED <<uiVars, now>>

StoreAdds ==
    \E amount \in StoreAmounts, category \in StoreCategories, date \in StoreDates :
        CallAddExpense(amount, category, date)
StoreDeletes == \E expense_id \in StoreIds : CallDeleteExpense(expense_id)

NextStore == StoreAdds \/ StoreDeletes

SpecStore == Init /\ [][NextStore]_vars

(***************************************************************************)
(* Properties.                                                             *)
(***************************************************************************)
Range(seq) == {seq[i] : i \in 1..Len(seq)}

Count(seq, x) == Cardinality({i \in 1..Len(seq) : seq[i] = x})

\* seq and other hold the same elements, each as many times.
SameElements(seq, other) ==
    \E a \in {seq}, b \in {other} :
        /\ Len(a) = Len(b)
        /\ \A x \in Range(a) : Count(a, x) = Count(b, x)

RemoveAt(seq, j) == SubSeq(seq, 1, j - 1) \o SubSeq(seq, j + 1, Len(seq))

HasId(rows, expense_id) == \E i \in 1..Len(rows) : rows[i].id = expense_id

Fields(r) == <<r.amount, r.category, r.date>>

\* The rows other than the one of the given id, in storage order.
Survivors(rows, expense_id) == SelectSeq(rows, LAMBDA r : r.id # expense_id)

\* C1: a store add of a positive amount and a non-empty category, followed by
\* list_all, lists a record with exactly that amount, category and date whose
\* id differs from the id of every other listed record, and every record
\* listed before the add is still listed, unchanged.
C1_AddThenListAll ==
    [][(/\ last'.op = "DataStorage.add_expense"
        /\ FloatGtZero(last'.amount)
        /\ last'.category # "")
       => \E before \in {get_all_expenses(expenses)},
             after \in {get_all_expenses(expenses')} :
              \E j \in 1..Len(after) :
                 /\ FloatEq(after[j].amount, last'.amount)
                 /\ after[j].category = last'.category
                 /\ after[j].date = last'.date
                 /\ \A k \in (1..Len(after)) \ {j} : after[k].id # after[j].id
                 /\ SameElements(before, RemoveAt(after, j))]_vars

C1_Witness ==
    /\ last.op = "DataStorage.add_expense"
    /\ FloatGtZero(last.amount)
    /\ last.category # ""
    /\ raised = ""
    /\ Len(expenses) = 3

\* C2: a store add with amount <= 0 or with an empty category creates no
\* record and surfaces a ValidationError.
C2_StoreRejectsInvalid ==
    [][(/\ last'.op = "DataStorage.add_expense"
        /\ (FloatLeZero(last'.amount) \/ last'.category = ""))
       => (expenses' = expenses /\ raised' = "ValidationError")]_vars

\* C3: submit_new_expense with an empty amount, an empty category, an amount
\* that does not parse or an amount <= 0 shows a validation error and leaves
\* the store unchanged; only an input with both fields non-empty and a
\* positive amount reaches Store.add; every record created through the
\* controller has a positive amount and a non-empty category.
C3_SubmitValidates ==
    [][last'.op = "add_expense" =>
          LET parsed == ParseFloat(amount_entry)
              rejected == \/ amount_entry = <<>>
                          \/ category_combobox = ""
                          \/ ~parsed.ok
                          \/ FloatLeZero(parsed.val)
              positive == /\ amount_entry # <<>>
                          /\ category_combobox # ""
                          /\ parsed.ok
                          /\ FloatGtZero(parsed.val)
              reachedStoreAdd == raised' # "" \/ expenses' # expenses
          IN  /\ rejected => /\ message' # NoMessage
                              /\ message'[1] = "showerror"
                              /\ UNCHANGED storeVars
              /\ reachedStoreAdd => positive
              /\ \A i \in 1..Len(expenses') :
                    FloatGtZero(expenses'[i].amount) /\ expenses'[i].category # ""]_vars

\* C4: delete(id) of an existing id removes exactly that record from list_all;
\* the n remaining records carry the ids 1..n in their previous storage order,
\* with their amount, category and date unchanged.
C4_DeleteRenumbers ==
    [][(last'.op = "DataStorage.delete_expense" /\ HasId(expenses, last'.id))
       => \E kept \in {Survivors(expenses, last'.id)},
             gone \in {OwnerOf(expenses, logical, last'.id)} :
              /\ Len(expenses') = Len(expenses) - 1
              /\ Len(kept) = Len(expenses')
              /\ \A k \in 1..Len(expenses') :
                    /\ expenses'[k].id = k
                    /\ Fields(expenses'[k]) = Fields(kept[k])
              /\ Range(logical') = Range(logical) \ {gone}
              /\ SameElements(get_all_expenses(expenses'), expenses')]_vars

C4_Witness ==
    /\ last.op = "DataStorage.delete_expense"
    /\ last.id = 2
    /\ logical = <<1, 3>>
    /\ expenses[2].id = 2

\* C5: in every store state reachable from the empty store, delete(id) of an
\* id no record holds leaves the table unchanged: list_all returns the same
\* records with the same ids before and after.
C5_DeleteMissingIsNoOp ==
    [][(last'.op = "DataStorage.delete_expense" /\ ~HasId(expenses, last'.id))
       => /\ expenses' = expenses
          /\ get_all_expenses(expenses') = get_all_expenses(expenses)
          /\ sqlite_sequence' = sqlite_sequence]_vars

C5_Witness ==
    /\ last.op = "DataStorage.delete_expense"
    /\ ~HasId(expenses, last.id)
    /\ Len(expenses) = 3

\* The moment a date string of the form dd-mm-YYYY HH:MM:SS stands for, as
\* <<year, month, day, hour, minute, second>>.
MomentOf(date) ==
    << DigitsVal(SubSeq(date, 7, 10)), DigitsVal(SubSeq(date, 4, 5)),
       DigitsVal(SubSeq(date, 1, 2)), DigitsVal(SubSeq(date, 12, 13)),
       DigitsVal(SubSeq(date, 15, 16)), DigitsVal(SubSeq(date, 18, 19)) >>

\* Moment a is before moment b.
RECURSIVE Before(_, _)
Before(a, b) ==
    IF a = <<>> THEN FALSE
    ELSE IF Head(a) # Head(b) THEN Head(a) < Head(b)
    ELSE Before(Tail(a), Tail(b))

\* C6: list_all never lists a record created at a later moment after a record
\* created at an earlier moment.
C6_ListAllNewestFirst ==
    \A listed \in {get_all_expenses(expenses)} :
        \A i, j \in 1..Len(listed) :
            i < j => ~Before(MomentOf(listed[i].date), MomentOf(listed[j].date))

\* C7: the selection is none initially; delete_selected with a selected row
\* deletes the record of the selected id and leaves the selection none;
\* delete_selected with no selection shows the warning and changes neither the
\* store nor the selection.
C7_SelectionStateMachine ==
    /\ selected_expense_id = None
    /\ [][last'.op = "delete_expense" =>
            IF selected_expense_id # None
            THEN /\ selected_expense_id' = None
                 /\ Len(expenses') = Len(expenses) - 1
                 /\ Range(logical') =
                       Range(logical) \ {OwnerOf(expenses, logical, selected_expense_id)}
            ELSE /\ message' = <<"showwarning", "Selection Error",
                                 "Please select an expense to delete.">>
                 /\ UNCHANGED <<storeVars, uiVars>>]_vars

C7_Witness ==
    /\ last.op = "delete_expense"
    /\ last.id # None
    /\ selected_expense_id = None
    /\ Len(expenses) = 1
    /\ message = <<"showinfo", "Success", "Expense deleted successfully!">>

\* C8: once the store has given an id to a logical record, no other logical
\* record ever holds that id.
C8_IdNeverReused ==
    \A p, q \in ever_held : p[1] = q[1] => p[2] = q[2]

\* Sum of a sequence of floats, from the left.
RECURSIVE SumFloats(_)
SumFloats(xs) == IF xs = <<>> THEN Fin(0) ELSE FloatAdd(Head(xs), SumFloats(Tail(xs)))

\* Sum of the values of a set of slices.
RECURSIVE SumSlices(_)
SumSlices(slices) ==
    IF slices = {} THEN Fin(0)
    ELSE LET one == CHOOSE x \in slices : TRUE
         IN  FloatAdd(one.value, SumSlices(slices \ {one}))

AmountsOf(rows) == [i \in 1..Len(rows) |-> rows[i].amount]

\* C9: the breakdown of a non-empty list has exactly one slice per category
\* of the list, each worth the sum of the amounts of that category, and the
\* slices add up to the sum of all amounts; an empty list gives the notice
\* and no drawing.
C9_Breakdown ==
    last.op = "show_pie_chart" =>
        IF expenses = <<>>
        THEN /\ message = <<"showinfo", "Info", "No expenses to show.">>
             /\ ~chart.drawn
        ELSE /\ chart.drawn
             /\ message = NoMessage
             /\ {x.label : x \in chart.slices} = {r.category : r \in Range(expenses)}
             /\ Cardinality(chart.slices) = Cardinality({r.category : r \in Range(expenses)})
             /\ \A x \in chart.slices :
                   FloatEq(x.value,
                           SumFloats(AmountsOf(SelectSeq(expenses,
                                                         LAMBDA r : r.category = x.label))))
             /\ FloatEq(SumSlices(chart.slices), SumFloats(AmountsOf(expenses)))

C9_Witness ==
    /\ last.op = "show_pie_chart"
    /\ chart.drawn
    /\ Len(expenses) = 2
    /\ expenses[1].amount # expenses[2].amount

\* C10: the table displayed is the current content of the store; a selected
\* id that is not None is the current id of a record in the store, the one
\* behind the row the user clicked, and delete_selected removes that record
\* and no other.
C10_SelectionDenotesClickedRecord ==
    /\ [](expense_table = get_all_expenses(expenses))
    /\ [](selected_expense_id # None =>
            /\ HasId(expenses, selected_expense_id)
            /\ OwnerOf(expenses, logical, selected_expense_id) = selected_logical
            /\ selected_logical # 0)
    /\ [][(last'.op = "delete_expense" /\ selected_expense_id # None) =>
            Range(logical') = Range(logical) \ {selected_logical}]_vars

C10_Witness ==
    /\ selected_expense_id = 1
    /\ selected_logical = 2
    /\ Len(expenses) = 1

====
